---------------------------- MODULE Spec2Model ----------------------------
(***************************************************************************)
(* Multi-agent tourism backend: the orchestrator (ParentAgent), its two    *)
(* child workers (WeatherAgent, PlacesAgent), the three upstream clients   *)
(* (geocoding, weather, places) and the process-wide TTL cache.            *)
(*                                                                         *)
(* Text is modelled at two grains.  A location query is a sequence of      *)
(* one-character strings, so that lower-casing and the substring test of   *)
(* the intent classifier are computed as the code computes them.  A        *)
(* sentence (a worker's text, a failure message, the final response) is a  *)
(* sequence of fragments; f-string formatting and " ".join build such      *)
(* sequences.  A Python dict is a record, {} is the empty function, and an *)
(* Optional number is a sequence of length 0 (None) or 1.                  *)
(***************************************************************************)
EXTENDS Integers, Sequences, FiniteSets, TLC

(***************************************************************************)
(* Bounds of the model.                                                    *)
(***************************************************************************)
\* number of queries handed to process_query in one run
MaxQueries == 2
\* horizon of datetime.now(), in seconds
MaxNow == 3602
\* number of fragments concatenated into a classifier input
MaxFragments == 2

(***************************************************************************)
(* Program constants.                                                      *)
(***************************************************************************)
\* utils/cache.py: cache = SimpleCache(ttl_seconds=3600)
ttl_seconds == 3600
\* settings.py: max_retries
MAX_RETRIES == 3
\* settings.py: retry_delay (seconds)
RETRY_DELAY == 1
\* geocoding_service.py: self.rate_limit_delay (seconds)
rate_limit_delay == 1
\* places_service.py: result = places[:5]
MaxPlaces == 5
\* places_service.py: radius: int = 10000
default_radius == 10000

(***************************************************************************)
(* Strings.                                                                *)
(***************************************************************************)
EmptyDict == [k \in {} |-> 0]

UpperToLower ==
    ("A" :> "a") @@ ("B" :> "b") @@ ("C" :> "c") @@ ("D" :> "d") @@
    ("E" :> "e") @@ ("F" :> "f") @@ ("G" :> "g") @@ ("H" :> "h") @@
    ("I" :> "i") @@ ("J" :> "j") @@ ("K" :> "k") @@ ("L" :> "l") @@
    ("M" :> "m") @@ ("N" :> "n") @@ ("O" :> "o") @@ ("P" :> "p") @@
    ("Q" :> "q") @@ ("R" :> "r") @@ ("S" :> "s") @@ ("T" :> "t") @@
    ("U" :> "u") @@ ("V" :> "v") @@ ("W" :> "w") @@ ("X" :> "x") @@
    ("Y" :> "y") @@ ("Z" :> "z")

\* str.lower()
lower(s) ==
    [i \in 1..Len(s) |->
        IF s[i] \in DOMAIN UpperToLower THEN UpperToLower[s[i]] ELSE s[i]]

\* keyword in query_text
RECURSIVE occurs_at_or_after(_, _, _)
occurs_at_or_after(keyword, text, i) ==
    IF i + Len(keyword) - 1 > Len(text) THEN FALSE
    ELSE IF SubSeq(text, i, i + Len(keyword) - 1) = keyword THEN TRUE
    ELSE occurs_at_or_after(keyword, text, i + 1)

contains(keyword, text) == occurs_at_or_after(keyword, text, 1)

\* any(keyword in query_text for keyword in keywords)
any_keyword_in(keywords, text) ==
    \E k \in 1..Len(keywords) : contains(keywords[k], text)

\* separator.join(parts), for a non-empty list of parts
RECURSIVE join(_, _)
join(separator, parts) ==
    IF Len(parts) = 0 THEN <<>>
    ELSE IF Len(parts) = 1 THEN parts[1]
    ELSE parts[1] \o separator \o join(separator, Tail(parts))

\* str(x) of an Optional number inside an f-string
str(x) == IF x = <<>> THEN "None" ELSE ToString(x[1])

(***************************************************************************)
(* ParentAgent._analyze_intent                                             *)
(***************************************************************************)
weather_keywords ==
    << <<"w", "e", "a", "t", "h", "e", "r">>,
       <<"t", "e", "m", "p", "e", "r", "a", "t", "u", "r", "e">>,
       <<"r", "a", "i", "n">>,
       <<"f", "o", "r", "e", "c", "a", "s", "t">> >>

places_keywords ==
    << <<"p", "l", "a", "c", "e", "s">>,
       <<"v", "i", "s", "i", "t">>,
       <<"a", "t", "t", "r", "a", "c", "t", "i", "o", "n", "s">>,
       <<"p", "l", "a", "n">>,
       <<"t", "r", "i", "p">>,
       <<"g", "o">> >>

has_weather(loc) == any_keyword_in(weather_keywords, lower(loc))
has_places(loc) == any_keyword_in(places_keywords, lower(loc))

\* the classification that tests the weather keywords first and forgets
\* "and not has_places"
intent_of_first_match(loc) ==
    IF has_weather(loc) THEN "weather"
    ELSE IF has_places(loc) THEN "places"
    ELSE "both"

intent_of(loc) ==
    IF has_weather(loc) /\ ~has_places(loc) THEN "weather"
    ELSE IF has_places(loc) /\ ~has_weather(loc) THEN "places"
    ELSE "both"


(***************************************************************************)
(* The environment: the queries handed to process_query and what the three *)
(* upstream providers can answer.                                          *)
(***************************************************************************)
\* "Paris" (no keyword), "Goa" (contains "go"), "Rain?" (contains "rain")
Locations ==
    { <<"P", "a", "r", "i", "s">>,
      <<"G", "o", "a">>,
      <<"R", "a", "i", "n", "?">> }

\* the outcome of one HTTP request to Nominatim: a 200 with a match, a 200
\* with an empty list, a 429, a transport error or error status
\* (httpx.HTTPError), a 200 whose body does not parse or lacks a field
GeocoderOutcomes == {"ok", "empty", "status_429", "http_error", "malformed"}

\* data[0] of a successful Nominatim answer, per query
geocoder_match(loc) ==
    IF lower(loc) = <<"g", "o", "a">>
    THEN [lat |-> 15, lon |-> 74, display_name |-> <<"Goa", ",", " India">>]
    ELSE IF lower(loc) = <<"r", "a", "i", "n", "?">>
    THEN [lat |-> 48, lon |-> 10, display_name |-> <<"Rain", ",", " Bayern">>]
    ELSE [lat |-> 48, lon |-> 2, display_name |-> <<"Paris", ",", " France">>]

\* the outcome of the HTTP request to Open-Meteo: a 200 with a JSON object,
\* an httpx.HTTPError, a body that is not JSON (ValueError), JSON that is not
\* an object (AttributeError on data.get)
ProviderOutcomes == {"ok", "http_error", "invalid_json", "not_a_dict"}

\* data["current"] of a 200 answer: complete, or without the two fields
WeatherBodies ==
    { [temperature_2m |-> <<18>>, precipitation_probability |-> <<20>>],
      EmptyDict }

\* tags of the elements Overpass returns; values are character sequences
Louvre ==
    [name |-> "Louvre",
     tourism |-> <<"m", "u", "s", "e", "u", "m">>]
HotelRitz ==
    [name |-> "Hotel Ritz",
     tourism |-> <<"h", "o", "t", "e", "l">>]
Tuileries ==
    [name |-> "Tuileries",
     leisure |-> <<"p", "a", "r", "k">>]
Unnamed ==
    [historic |-> <<"m", "e", "m", "o", "r", "i", "a", "l">>]

\* data["elements"] of a 200 answer
PlacesBodies ==
    { <<>>,
      << [tags |-> HotelRitz], [tags |-> Louvre], [tags |-> Unnamed],
         [tags |-> Louvre], [tags |-> Tuileries] >> }

\* dict.get(key, default)
dict_get(d, key, default) == IF key \in DOMAIN d THEN d[key] ELSE default

\* truth value of a dict, a list or None in an if
truthy(x) == DOMAIN x # {}

(***************************************************************************)
(* State.                                                                  *)
(***************************************************************************)
VARIABLES
    \* AgentState (parent_agent.py:18-29)
    location, query_type, weather_data, places_data, error, error_message,
    response,
    \* position of the request: the graph node and the statement inside it
    pc, node, worker,
    \* locals of the running worker and of geocode's retry loop
    geocode_result, attempt,
    \* the dict process_query returned
    envelope,
    \* process-wide state: SimpleCache.cache, and the event loop's time since
    \* GeocodingService.last_request_time, counted up to rate_limit_delay
    cache, time_since_last,
    \* the event loop's time since the last HTTP request to the geocoder went
    \* out, counted up to rate_limit_delay
    since_last_request,
    \* datetime.now(), in seconds
    now,
    \* history of the current request: the argument of process_query, calls
    \* per function, nodes run, errors raised beneath the fetch nodes; and the
    \* number of queries so far
    asked, calls, visited, raised, queries,
    \* what went upstream: the outcomes of the HTTP requests the running
    \* upstream call has sent and gone on after, and the bodies of the 200
    \* answers the two providers gave to the current request
    upstream

VARIABLES
    \* main.py: rate_limit_storage (client -> timestamps), time.time(), the
    \* admitted requests that await process_query, per client; and the
    \* history of the endpoint: per client, the time and status of each
    \* request it has issued; and main.py: request_count
    rate_limit_storage, current_time, in_flight, served, request_count

VARIABLES
    \* GeocodingService shared by concurrent requests: per request the place
    \* it is at in geocode and the time its sleep ends, the event loop's
    \* time() and self.last_request_time; and the history of the times at
    \* which a first request of a geocode call went out to the geocoder
    task_pc, wake_at, loop_time, last_request_time, sent

VARIABLES
    \* PlacesService on its own: data["elements"] of an answer of Overpass,
    \* and the list get_tourist_attractions returns for it (None before)
    overpass_elements, extracted

agent_state ==
    <<location, query_type, weather_data, places_data, error, error_message,
      response>>
control == <<pc, node, worker>>
locals == <<geocode_result, attempt>>
shared == <<cache, time_since_last, since_last_request>>
history == <<asked, calls, visited, raised, queries, upstream>>
agent_vars == <<agent_state, control, locals, envelope, shared, now, history>>
boundary ==
    <<rate_limit_storage, current_time, in_flight, served, request_count>>
race == <<task_pc, wake_at, loop_time, last_request_time, sent>>
extraction == <<overpass_elements, extracted>>
outside == <<boundary, race, extraction>>
vars == <<agent_vars, outside>>

\* the clients of the endpoint, by http_request.client.host
Clients == {"10.0.0.1", "10.0.0.2"}

\* main.py at import: nothing stored, nothing in flight
InitBoundary ==
    /\ rate_limit_storage = [c \in Clients |-> <<>>]
    /\ current_time = 0
    /\ in_flight = [c \in Clients |-> 0]
    /\ served = [c \in Clients |-> <<>>]
    /\ request_count = 0

\* bound: the requests that run concurrently
NumTasks == 3
Tasks == 1..NumTasks

\* GeocodingService.__init__, and the loop's clock a second after its origin
InitRace ==
    /\ task_pc = [t \in Tasks |-> "start"]
    /\ wake_at = [t \in Tasks |-> 0]
    /\ loop_time = rate_limit_delay
    /\ last_request_time = 0
    /\ sent = <<>>

\* no answer of Overpass at hand
InitExtraction ==
    /\ overpass_elements = <<>>
    /\ extracted = <<>>

InitOutside == InitBoundary /\ InitRace /\ InitExtraction

Counted ==
    {"analyze_intent", "get_weather", "get_places", "geocode",
     "get_current_weather", "get_tourist_attractions", "aggregate"}

NoCalls == [f \in Counted |-> 0]

NothingUpstream == [tried |-> <<>>, weather |-> <<>>, places |-> <<>>]

count(f) == [calls EXCEPT ![f] = @ + 1]

InitAgent ==
    /\ location = <<>>
    /\ query_type = ""
    /\ weather_data = EmptyDict
    /\ places_data = EmptyDict
    /\ error = FALSE
    /\ error_message = <<>>
    /\ response = <<>>
    /\ pc = "idle"
    /\ node = ""
    /\ worker = ""
    /\ geocode_result = EmptyDict
    /\ attempt = 0
    /\ envelope = EmptyDict
    /\ cache = EmptyDict
    /\ time_since_last = rate_limit_delay
    /\ since_last_request = rate_limit_delay
    /\ now = 1
    /\ asked = <<>>
    /\ calls = NoCalls
    /\ visited = <<>>
    /\ raised = <<>>
    /\ queries = 0
    /\ upstream = NothingUpstream

Init == InitAgent /\ InitOutside

(***************************************************************************)
(* ParentAgent.process_query, first half: the initial state and the start  *)
(* of the graph run.                                                       *)
(***************************************************************************)
process_query(loc) ==
    /\ pc \in {"idle", "done"}
    /\ queries < MaxQueries
    /\ queries' = queries + 1
    /\ asked' = loc
    /\ location' = loc
    /\ query_type' = ""
    /\ weather_data' = EmptyDict
    /\ places_data' = EmptyDict
    /\ error' = FALSE
    /\ error_message' = <<>>
    /\ response' = <<>>
    /\ envelope' = EmptyDict
    /\ pc' = "analyze_intent"
    /\ node' = "analyze_intent"
    /\ worker' = ""
    /\ calls' = NoCalls
    /\ visited' = <<"analyze_intent">>
    /\ raised' = <<>>
    /\ upstream' = NothingUpstream
    /\ UNCHANGED <<locals, shared, now>>

(***************************************************************************)
(* Node analyze_intent.                                                    *)
(***************************************************************************)
analyze_intent ==
    /\ pc = "analyze_intent"
    /\ query_type' = intent_of(location)
    /\ calls' = count("analyze_intent")
    /\ pc' = "route"
    /\ UNCHANGED <<location, weather_data, places_data, error, error_message,
                   response, node, worker, locals, envelope, shared, now,
                   visited, raised, queries, asked,
                   upstream>>

(***************************************************************************)
(* The conditional edge out of analyze_intent.                             *)
(***************************************************************************)
\* the edge that sends a weather query to fetch_both
route_of_weather_to_both(qt) ==
    IF qt = "places" THEN "fetch_places"
    ELSE "fetch_both"

route_of(qt) ==
    IF qt = "weather" THEN "fetch_weather"
    ELSE IF qt = "places" THEN "fetch_places"
    ELSE "fetch_both"

route_based_on_intent ==
    /\ pc = "route"
    /\ pc' = route_of(query_type)
    /\ node' = route_of(query_type)
    /\ visited' = Append(visited, route_of(query_type))
    /\ UNCHANGED <<agent_state, worker, locals, envelope, shared, now,
                   calls, raised, queries, asked,
                   upstream>>

(***************************************************************************)
(* utils/cache.py: SimpleCache.get and SimpleCache.set.  A key is a record *)
(* standing for the f-string the client builds.                            *)
(***************************************************************************)
None == <<>>

geocode_key(loc) ==
    [kind |-> "geocode", name |-> lower(loc), lat |-> 0, lon |-> 0,
     radius |-> 0]
weather_key(lat, lon) ==
    [kind |-> "weather", name |-> <<>>, lat |-> lat, lon |-> lon,
     radius |-> 0]
places_key(lat, lon, radius) ==
    [kind |-> "places", name |-> <<>>, lat |-> lat, lon |-> lon,
     radius |-> radius]

\* datetime.now() > expiry
expired(entry) == now > entry.expiry

\* the value SimpleCache.get returns
cache_get(key) ==
    IF key \notin DOMAIN cache THEN None
    ELSE IF expired(cache[key]) THEN None
    ELSE cache[key].value

\* a get that renews the expiry of the entry it returns
cache_after_get_renewing(key) ==
    IF key \in DOMAIN cache /\ expired(cache[key])
    THEN [k \in DOMAIN cache \ {key} |-> cache[k]]
    ELSE IF key \in DOMAIN cache
    THEN [cache EXCEPT ![key].expiry = now + ttl_seconds]
    ELSE cache

\* the store SimpleCache.get leaves behind
cache_after_get(key) ==
    IF key \in DOMAIN cache /\ expired(cache[key])
    THEN [k \in DOMAIN cache \ {key} |-> cache[k]]
    ELSE cache

\* the store after SimpleCache.set, called on store c
cache_set(c, key, value) ==
    (key :> [value |-> value, expiry |-> now + ttl_seconds]) @@ c

\* a service call that ends with an error stores its failure under key
cache_after_error_storing(key) == cache_set(cache, key, None)

\* the store a service call leaves behind when it ends with an error: every
\* raise of the three services comes before the call's cache.set
cache_after_error(key) == cache

(***************************************************************************)
(* Error handling of the workers and of the fetch nodes.                   *)
(***************************************************************************)
MsgLocationNotFound == <<"I don't know this place exists">>
MsgWeatherUnavailable == <<"Unable to fetch weather information">>
MsgPlacesUnavailable == <<"Unable to fetch places information">>

own_error(w) == IF w = "weather" THEN "WeatherAPIError" ELSE "PlacesAPIError"

\* the worker without its "except LocationNotFoundError: raise" clause
agent_except_wraps_all(w, exc) == own_error(w)

\* the worker without its "except Exception" clause
agent_except_no_catch_all(w, exc) == exc

\* the except clauses of WeatherAgent.get_weather / PlacesAgent.get_places:
\* the error kind the worker raises when exc is raised beneath it
agent_except(w, exc) ==
    IF exc = "LocationNotFoundError" THEN "LocationNotFoundError"
    ELSE IF exc = own_error(w) THEN own_error(w)
    ELSE own_error(w)

\* the fetch node without its "except LocationNotFoundError" clause
fetch_error_message_one_clause(w, exc) ==
    IF w = "weather" THEN MsgWeatherUnavailable
    ELSE MsgPlacesUnavailable

\* the except clauses of ParentAgent._fetch_weather / _fetch_places:
\* the error_message recorded when the worker raises exc
fetch_error_message(w, exc) ==
    IF exc = "LocationNotFoundError" THEN MsgLocationNotFound
    ELSE IF w = "weather" THEN MsgWeatherUnavailable
    ELSE MsgPlacesUnavailable

\* every error kind raised beneath the fetch nodes derives from Exception
Exceptions ==
    {"LocationNotFoundError", "WeatherAPIError", "PlacesAPIError",
     "RateLimitError", "ValueError", "KeyError", "AttributeError"}

\* the fetch node without its "except Exception" clause
fetch_catches_location_not_found_only(w, exc) ==
    exc = "LocationNotFoundError"

\* whether the except clauses of _fetch_weather / _fetch_places catch exc
fetch_catches(w, exc) ==
    exc = "LocationNotFoundError" \/ exc \in Exceptions

\* a graph whose fetch_places node has its edge to END, not to aggregate
after_fetch_places_to_end ==
    IF node = "fetch_both" /\ worker = "weather" THEN "fetch_both_places"
    ELSE IF node = "fetch_places" THEN "return"
    ELSE "aggregate"

\* where the request goes when _fetch_weather / _fetch_places returns
after_fetch ==
    IF node = "fetch_both" /\ worker = "weather" THEN "fetch_both_places"
    ELSE "aggregate"

\* an error exc raised at site (because of cause) beneath the running
\* worker travels up to the fetch node, which records the failure and
\* returns; an error the node does not catch leaves process_query.  The
\* worker's locals are gone.
worker_raises(site, cause, exc) ==
    LET surfaced == agent_except(worker, exc)
    IN  /\ IF fetch_catches(worker, surfaced)
           THEN /\ error' = TRUE
                /\ error_message' = fetch_error_message(worker, surfaced)
                /\ pc' = after_fetch
           ELSE /\ pc' = "raised"
                /\ UNCHANGED <<error, error_message>>
        /\ raised' = Append(raised,
               [site |-> site, cause |-> cause, exc |-> exc,
                worker |-> worker, surfaced |-> surfaced,
                message |-> IF fetch_catches(worker, surfaced)
                            THEN fetch_error_message(worker, surfaced)
                            ELSE <<>>,
                calls |-> calls,
                attempts |-> Len(upstream.tried) + 1])
        /\ geocode_result' = EmptyDict
        /\ attempt' = 0
        /\ UNCHANGED <<location, query_type, weather_data, places_data,
                       response>>

\* the running worker returns result; the fetch node stores it and returns
worker_returns(result) ==
    /\ IF worker = "weather"
       THEN weather_data' = result /\ UNCHANGED places_data
       ELSE places_data' = result /\ UNCHANGED weather_data
    /\ pc' = after_fetch
    /\ geocode_result' = EmptyDict
    /\ attempt' = 0
    /\ UNCHANGED <<location, query_type, error, error_message, response,
                   raised>>

(***************************************************************************)
(* Formatting in the workers.                                              *)
(***************************************************************************)
\* display_name.split(',')[0]
RECURSIVE before_comma(_)
before_comma(name) ==
    IF name = <<>> \/ Head(name) = "," THEN <<>>
    ELSE <<Head(name)>> \o before_comma(Tail(name))

\* a sentence that repeats the temperature where the chance of rain belongs
weather_result_temperature_twice(geo, data) ==
    LET temp == data.temperature
        precip == data.precipitation_probability
        city_name == before_comma(geo.display_name)
    IN  [success |-> TRUE,
         weather_text |->
             <<"In ">> \o city_name
             \o <<" it's currently ", str(temp), "°C with a chance of ",
                  str(temp), "% to rain.">>,
         temperature |-> temp,
         precipitation_probability |-> precip,
         location |-> city_name]

\* WeatherAgent.get_weather, step 3
weather_result(geo, data) ==
    LET temp == data.temperature
        precip == data.precipitation_probability
        city_name == before_comma(geo.display_name)
    IN  [success |-> TRUE,
         weather_text |->
             <<"In ">> \o city_name
             \o <<" it's currently ", str(temp), "°C with a chance of ",
                  str(precip), "% to rain.">>,
         temperature |-> temp,
         precipitation_probability |-> precip,
         location |-> city_name]

\* "\n".join([f"- {place}" for place in places])
bullet_list(places) ==
    join(<<"\n">>, [i \in 1..Len(places) |-> <<"- ", places[i]>>])

\* a worker that reports success only when it has places to list
places_result_success_if_any(geo, places) ==
    LET city_name == before_comma(geo.display_name)
    IN  [success |-> truthy(places),
         places_text |->
             IF ~truthy(places)
             THEN <<"I couldn't find tourist attractions in ">>
                  \o city_name \o <<".">>
             ELSE <<"In ">> \o city_name
                  \o <<" these are the places you can go,\n\n">>
                  \o bullet_list(places),
         places |-> places,
         location |-> city_name]

\* PlacesAgent.get_places, step 3
places_result(geo, places) ==
    LET city_name == before_comma(geo.display_name)
    IN  [success |-> TRUE,
         places_text |->
             IF ~truthy(places)
             THEN <<"I couldn't find tourist attractions in ">>
                  \o city_name \o <<".">>
             ELSE <<"In ">> \o city_name
                  \o <<" these are the places you can go,\n\n">>
                  \o bullet_list(places),
         places |-> places,
         location |-> city_name]

(***************************************************************************)
(* PlacesService.get_tourist_attractions: extraction of the names.         *)
(***************************************************************************)
relevant_types ==
    << <<"a", "t", "t", "r", "a", "c", "t", "i", "o", "n">>,
       <<"m", "u", "s", "e", "u", "m">>,
       <<"g", "a", "l", "l", "e", "r", "y">>,
       <<"v", "i", "e", "w", "p", "o", "i", "n", "t">>,
       <<"z", "o", "o">>,
       <<"t", "h", "e", "m", "e", "_", "p", "a", "r", "k">>,
       <<"p", "a", "r", "k">>,
       <<"m", "o", "n", "u", "m", "e", "n", "t">>,
       <<"p", "a", "l", "a", "c", "e">>,
       <<"c", "a", "s", "t", "l", "e">>,
       <<"f", "o", "r", "t">>,
       <<"m", "e", "m", "o", "r", "i", "a", "l">> >>

tags_of(element) == dict_get(element, "tags", EmptyDict)
name_of(element) == dict_get(tags_of(element), "name", "")

\* any(t in tourism_type or t in leisure_type or t in historic_type ...)
is_relevant(element) ==
    LET tourism_type == dict_get(tags_of(element), "tourism", <<>>)
        leisure_type == dict_get(tags_of(element), "leisure", <<>>)
        historic_type == dict_get(tags_of(element), "historic", <<>>)
    IN  \E k \in 1..Len(relevant_types) :
            \/ contains(relevant_types[k], tourism_type)
            \/ contains(relevant_types[k], leisure_type)
            \/ contains(relevant_types[k], historic_type)

\* the first loop: [places, seen_names] after elements i..
RECURSIVE relevant_pass(_, _, _, _)
relevant_pass(elements, i, places, seen_names) ==
    IF i > Len(elements) THEN [places |-> places, seen_names |-> seen_names]
    ELSE LET name == name_of(elements[i])
         IN  IF name # "" /\ name \notin seen_names /\ is_relevant(elements[i])
             THEN relevant_pass(elements, i + 1, Append(places, name),
                                seen_names \cup {name})
             ELSE relevant_pass(elements, i + 1, places, seen_names)

\* the second loop: result after elements i..
RECURSIVE any_named_pass(_, _, _, _)
any_named_pass(elements, i, result, seen_names) ==
    IF i > Len(elements) \/ Len(result) >= MaxPlaces THEN result
    ELSE LET name == name_of(elements[i])
         IN  IF name # "" /\ name \notin seen_names
             THEN any_named_pass(elements, i + 1, Append(result, name),
                                 seen_names \cup {name})
             ELSE any_named_pass(elements, i + 1, result, seen_names)

\* list[:n + 1]
take_one_more(list, n) ==
    SubSeq(list, 1, IF Len(list) < n + 1 THEN Len(list) ELSE n + 1)

\* list[:n]
take(list, n) == SubSeq(list, 1, IF Len(list) < n THEN Len(list) ELSE n)

\* an extraction that takes the named elements as they come
tourist_attractions_any_named_first(elements) ==
    take(any_named_pass(elements, 1, <<>>, {}), MaxPlaces)

tourist_attractions(elements) ==
    LET first == relevant_pass(elements, 1, <<>>, {})
        result == take(first.places, MaxPlaces)
    IN  IF Len(result) < MaxPlaces
        THEN take(any_named_pass(elements, 1, result, first.seen_names),
                  MaxPlaces)
        ELSE take(result, MaxPlaces)

(***************************************************************************)
(* Nodes fetch_weather, fetch_places, fetch_both: the call of the worker,  *)
(* which starts with geocoding_service.geocode(location).                  *)
(***************************************************************************)
fetch_weather ==
    /\ pc = "fetch_weather"
    /\ worker' = "weather"
    /\ calls' = count("get_weather")
    /\ pc' = "geocode"
    /\ UNCHANGED <<agent_state, node, locals, envelope, shared, now, visited,
                   raised, queries, asked,
                   upstream>>

fetch_places ==
    /\ pc = "fetch_places"
    /\ worker' = "places"
    /\ calls' = count("get_places")
    /\ pc' = "geocode"
    /\ UNCHANGED <<agent_state, node, locals, envelope, shared, now, visited,
                   raised, queries, asked,
                   upstream>>

\* a _fetch_both that begins with the places worker
fetch_both_places_first ==
    /\ pc = "fetch_both"
    /\ worker' = "places"
    /\ calls' = count("get_places")
    /\ pc' = "geocode"
    /\ UNCHANGED <<agent_state, node, locals, envelope, shared, now, visited,
                   raised, queries, asked,
                   upstream>>

\* _fetch_both, line 116: state = await self._fetch_weather(state)
fetch_both ==
    /\ pc = "fetch_both"
    /\ worker' = "weather"
    /\ calls' = count("get_weather")
    /\ pc' = "geocode"
    /\ UNCHANGED <<agent_state, node, locals, envelope, shared, now, visited,
                   raised, queries, asked,
                   upstream>>

\* _fetch_both without the test of line 117
goes_on_to_places_always == TRUE

\* whether _fetch_both goes on to the places worker (line 117)
goes_on_to_places == ~error

\* _fetch_both, lines 117-119
fetch_both_places ==
    /\ pc = "fetch_both_places"
    /\ IF goes_on_to_places
       THEN /\ worker' = "places"
            /\ calls' = count("get_places")
            /\ pc' = "geocode"
       ELSE /\ pc' = "aggregate"
            /\ UNCHANGED <<worker, calls>>
    /\ UNCHANGED <<agent_state, node, locals, envelope, shared, now, visited,
                   raised, queries, asked,
                   upstream>>

(***************************************************************************)
(* GeocodingService.geocode                                                *)
(***************************************************************************)
\* the event loop's clock d seconds later, as _respect_rate_limit sees it
later(since, d) ==
    IF since + d > rate_limit_delay THEN rate_limit_delay ELSE since + d

\* the asyncio.sleep at whose end the next request goes out to the geocoder:
\* what is left of the one of line 44, the one of lines 98 and 124, or none
slept ==
    IF pc = "rate_limit_sleep" THEN rate_limit_delay - time_since_last
    ELSE IF pc = "retry_sleep" THEN RETRY_DELAY * (attempt + 1)
    ELSE 0

\* lines 62-70: the cache lookup and, on a miss, _respect_rate_limit up to
\* its sleep; with no sleep, the first request goes out
geocode ==
    /\ pc = "geocode"
    /\ calls' = count("geocode")
    /\ LET cached_result == cache_get(geocode_key(location))
       IN  /\ cache' = cache_after_get(geocode_key(location))
           /\ IF truthy(cached_result)
              THEN /\ geocode_result' = cached_result
                   /\ pc' = "provider"
                   /\ UNCHANGED <<attempt, time_since_last,
                                  since_last_request>>
              ELSE /\ attempt' = 0
                   /\ UNCHANGED geocode_result
                   /\ IF time_since_last < rate_limit_delay
                      THEN /\ pc' = "rate_limit_sleep"
                           /\ UNCHANGED <<time_since_last,
                                          since_last_request>>
                      ELSE /\ time_since_last' = 0
                           /\ since_last_request' = 0
                           /\ pc' = "geocoder_http"
    /\ UNCHANGED <<agent_state, node, worker, envelope, now, visited, raised,
                   queries, asked>>
    /\ upstream' = [upstream EXCEPT !.tried = <<>>]

\* _respect_rate_limit, lines 44-46: the sleep is over and last_request_time
\* is the time it is now
respect_rate_limit_wake ==
    /\ pc = "rate_limit_sleep"
    /\ since_last_request' = 0
    /\ time_since_last' = 0
    /\ pc' = "geocoder_http"
    /\ UNCHANGED <<agent_state, node, worker, locals, envelope, cache, now,
                   history>>

\* a loop that gives up one pass early: attempt < MAX_RETRIES - 2
geocoder_verdict_one_pass_less(outcome, n) ==
    CASE outcome = "status_429" ->
             IF n < MAX_RETRIES - 2 THEN "retry" ELSE "RateLimitError"
      [] outcome = "http_error" ->
             IF n < MAX_RETRIES - 2 THEN "retry" ELSE "LocationNotFoundError"
      [] outcome = "malformed" -> "ValueError"
      [] outcome = "empty" -> "LocationNotFoundError"
      [] outcome = "ok" -> "return"

\* a loop that goes round once more: attempt < MAX_RETRIES
geocoder_verdict_one_pass_more(outcome, n) ==
    CASE outcome = "status_429" ->
             IF n < MAX_RETRIES THEN "retry" ELSE "RateLimitError"
      [] outcome = "http_error" ->
             IF n < MAX_RETRIES THEN "retry" ELSE "LocationNotFoundError"
      [] outcome = "malformed" -> "ValueError"
      [] outcome = "empty" -> "LocationNotFoundError"
      [] outcome = "ok" -> "return"

\* a loop that treats an empty answer as it treats a transport error
geocoder_verdict_not_found_retried(outcome, n) ==
    CASE outcome = "status_429" ->
             IF n < MAX_RETRIES - 1 THEN "retry" ELSE "RateLimitError"
      [] outcome = "http_error" ->
             IF n < MAX_RETRIES - 1 THEN "retry" ELSE "LocationNotFoundError"
      [] outcome = "malformed" -> "ValueError"
      [] outcome = "empty" ->
             IF n < MAX_RETRIES - 1 THEN "retry" ELSE "LocationNotFoundError"
      [] outcome = "ok" -> "return"

\* what one pass of the retry loop does with the outcome of its request
geocoder_verdict(outcome, n) ==
    CASE outcome = "status_429" ->
             IF n < MAX_RETRIES - 1 THEN "retry" ELSE "RateLimitError"
      [] outcome = "http_error" ->
             IF n < MAX_RETRIES - 1 THEN "retry" ELSE "LocationNotFoundError"
      [] outcome = "malformed" -> "ValueError"
      [] outcome = "empty" -> "LocationNotFoundError"
      [] outcome = "ok" -> "return"

\* lines 85-127: one pass of the retry loop, given the outcome of the request
geocoder_http(outcome) ==
    /\ pc = "geocoder_http"
    /\ UNCHANGED <<node, worker, envelope, time_since_last,
                   since_last_request, now, calls, visited, queries, asked>>
    /\ LET verdict == geocoder_verdict(outcome, attempt)
       IN  CASE verdict = "retry" ->
                    /\ upstream' =
                           [upstream EXCEPT !.tried = Append(@, outcome)]
                    /\ pc' = "retry_sleep"
                    /\ UNCHANGED <<agent_state, locals, cache, raised>>
             [] verdict = "return" ->
                    /\ upstream' =
                           [upstream EXCEPT !.tried = Append(@, outcome)]
                    /\ cache' = cache_set(cache, geocode_key(location),
                                          geocoder_match(location))
                    /\ geocode_result' = geocoder_match(location)
                    /\ pc' = "provider"
                    /\ UNCHANGED <<agent_state, attempt, raised>>
             [] OTHER ->
                    /\ upstream' = [upstream EXCEPT !.tried = <<>>]
                    /\ worker_raises("geocode", outcome, verdict)
                    /\ cache' = cache_after_error(geocode_key(location))

\* lines 98-99 and 124-125: asyncio.sleep(RETRY_DELAY * (attempt + 1)) is
\* over, and the loop goes to its next pass
geocode_retry ==
    /\ pc = "retry_sleep"
    /\ time_since_last' = later(time_since_last, RETRY_DELAY * (attempt + 1))
    /\ since_last_request' = 0
    /\ attempt' = attempt + 1
    /\ pc' = "geocoder_http"
    /\ UNCHANGED <<agent_state, node, worker, geocode_result, envelope, cache,
                   now, history>>

(***************************************************************************)
(* WeatherService.get_current_weather, called by WeatherAgent.get_weather  *)
(***************************************************************************)
get_current_weather ==
    /\ pc = "provider"
    /\ worker = "weather"
    /\ calls' = count("get_current_weather")
    /\ LET key == weather_key(geocode_result.lat, geocode_result.lon)
           cached_result == cache_get(key)
       IN  /\ cache' = cache_after_get(key)
           /\ IF truthy(cached_result)
              THEN worker_returns(weather_result(geocode_result, cached_result))
              ELSE /\ pc' = "weather_http"
                   /\ UNCHANGED <<agent_state, locals, raised>>
    /\ UNCHANGED <<node, worker, envelope, time_since_last,
                   since_last_request, now, visited,
                   queries, asked>>
    /\ upstream' = [upstream EXCEPT !.tried = <<>>]

\* the error the weather client raises on a failed request, if it catches it
weather_service_error(outcome) ==
    CASE outcome = "http_error" -> "WeatherAPIError"
      [] outcome = "invalid_json" -> "WeatherAPIError"
      [] outcome = "not_a_dict" -> "AttributeError"

\* lines 47-76, given the outcome of the request and the body of a 200
weather_http(outcome, current) ==
    /\ pc = "weather_http"
    /\ UNCHANGED <<node, worker, envelope, time_since_last,
                   since_last_request, now, calls,
                   visited, queries, asked>>
    /\ upstream' = IF outcome = "ok"
                    THEN [upstream EXCEPT !.weather = <<current>>]
                    ELSE upstream
    /\ IF outcome = "ok"
       THEN LET result ==
                    [temperature |->
                         dict_get(current, "temperature_2m", None),
                     precipitation_probability |->
                         dict_get(current, "precipitation_probability", <<0>>)]
            IN  /\ cache' = cache_set(cache,
                      weather_key(geocode_result.lat, geocode_result.lon),
                      result)
                /\ worker_returns(weather_result(geocode_result, result))
       ELSE /\ worker_raises("weather_service", outcome,
                             weather_service_error(outcome))
            /\ cache' = cache_after_error(
                   weather_key(geocode_result.lat, geocode_result.lon))

(***************************************************************************)
(* PlacesService.get_tourist_attractions, called by PlacesAgent.get_places *)
(***************************************************************************)
get_tourist_attractions ==
    /\ pc = "provider"
    /\ worker = "places"
    /\ calls' = count("get_tourist_attractions")
    /\ LET key == places_key(geocode_result.lat, geocode_result.lon,
                             default_radius)
           cached_result == cache_get(key)
       IN  /\ cache' = cache_after_get(key)
           /\ IF truthy(cached_result)
              THEN worker_returns(places_result(geocode_result, cached_result))
              ELSE /\ pc' = "places_http"
                   /\ UNCHANGED <<agent_state, locals, raised>>
    /\ UNCHANGED <<node, worker, envelope, time_since_last,
                   since_last_request, now, visited,
                   queries, asked>>
    /\ upstream' = [upstream EXCEPT !.tried = <<>>]

\* the error the places client raises on a failed request, if it catches it
places_service_error(outcome) ==
    CASE outcome = "http_error" -> "PlacesAPIError"
      [] outcome = "invalid_json" -> "PlacesAPIError"
      [] outcome = "not_a_dict" -> "AttributeError"

\* lines 59-123, given the outcome of the request and the elements of a 200
places_http(outcome, elements) ==
    /\ pc = "places_http"
    /\ UNCHANGED <<node, worker, envelope, time_since_last,
                   since_last_request, now, calls,
                   visited, queries, asked>>
    /\ upstream' = IF outcome = "ok"
                    THEN [upstream EXCEPT !.places = <<elements>>]
                    ELSE upstream
    /\ IF outcome = "ok"
       THEN LET result == tourist_attractions(elements)
            IN  /\ cache' = cache_set(cache,
                      places_key(geocode_result.lat, geocode_result.lon,
                                 default_radius),
                      result)
                /\ worker_returns(places_result(geocode_result, result))
       ELSE /\ worker_raises("places_service", outcome,
                             places_service_error(outcome))
            /\ cache' = cache_after_error(
                   places_key(geocode_result.lat, geocode_result.lon,
                              default_radius))

(***************************************************************************)
(* Node aggregate: ParentAgent._aggregate_response                         *)
(***************************************************************************)
NoInformation == <<"I couldn't find information for this location.">>

\* the two sentences collected in the opposite order
response_parts_places_first ==
    (IF truthy(places_data) /\ dict_get(places_data, "success", FALSE)
     THEN <<places_data.places_text>> ELSE <<>>)
    \o
    (IF truthy(weather_data) /\ dict_get(weather_data, "success", FALSE)
     THEN <<weather_data.weather_text>> ELSE <<>>)

response_parts ==
    (IF truthy(weather_data) /\ dict_get(weather_data, "success", FALSE)
     THEN <<weather_data.weather_text>> ELSE <<>>)
    \o
    (IF truthy(places_data) /\ dict_get(places_data, "success", FALSE)
     THEN <<places_data.places_text>> ELSE <<>>)

\* an aggregation that looks at the parts before it looks at error
aggregated_parts_first ==
    IF response_parts # <<>> THEN join(<<" ">>, response_parts)
    ELSE IF error THEN error_message
    ELSE NoInformation

aggregated ==
    IF error THEN error_message
    ELSE IF response_parts # <<>> THEN join(<<" ">>, response_parts)
    ELSE NoInformation

aggregate_response ==
    /\ pc = "aggregate"
    /\ response' = aggregated
    /\ node' = "aggregate"
    /\ visited' = Append(visited, "aggregate")
    /\ calls' = count("aggregate")
    /\ pc' = "return"
    /\ UNCHANGED <<location, query_type, weather_data, places_data, error,
                   error_message, worker, locals, envelope, shared, now,
                   raised, queries, asked,
                   upstream>>

(***************************************************************************)
(* ParentAgent.process_query, second half: the returned dict.              *)
(***************************************************************************)
returned ==
    [success |-> ~error,
     response |-> response,
     query_type |-> query_type,
     location |-> location]
    @@ (IF truthy(weather_data) THEN [weather |-> weather_data] ELSE EmptyDict)
    @@ (IF truthy(places_data) THEN [places |-> places_data] ELSE EmptyDict)

process_query_return ==
    /\ pc = "return"
    /\ envelope' = returned
    /\ node' = "END"
    /\ pc' = "done"
    /\ UNCHANGED <<agent_state, worker, locals, shared, now, history>>

(***************************************************************************)
(* The clocks.  Time passes between any two steps.  datetime.now(), which  *)
(* the cache reads, moves by the cache's TTL or by a second more, that is  *)
(* to the instant an entry expires or just past it, up to the horizon; the *)
(* event loop's clock, which _respect_rate_limit reads, moves by a second. *)
(***************************************************************************)
TickSteps == {ttl_seconds, ttl_seconds + 1}

Tick(d) ==
    /\ now + d <= MaxNow
    /\ now' = now + d
    /\ time_since_last' = later(time_since_last, d)
    /\ since_last_request' = later(since_last_request, d)
    /\ UNCHANGED <<agent_state, control, locals, envelope, cache, history>>

LoopTick ==
    /\ \/ time_since_last < rate_limit_delay
       \/ since_last_request < rate_limit_delay
    /\ time_since_last' = later(time_since_last, 1)
    /\ since_last_request' = later(since_last_request, 1)
    /\ UNCHANGED <<agent_state, control, locals, envelope, cache, now,
                   history>>

Next ==
    \/ /\ \E loc \in Locations : process_query(loc)
       /\ UNCHANGED outside
    \/ /\ analyze_intent
       /\ UNCHANGED outside
    \/ /\ route_based_on_intent
       /\ UNCHANGED outside
    \/ /\ fetch_weather
       /\ UNCHANGED outside
    \/ /\ fetch_places
       /\ UNCHANGED outside
    \/ /\ fetch_both
       /\ UNCHANGED outside
    \/ /\ fetch_both_places
       /\ UNCHANGED outside
    \/ /\ geocode
       /\ UNCHANGED outside
    \/ /\ respect_rate_limit_wake
       /\ UNCHANGED outside
    \/ /\ \E outcome \in GeocoderOutcomes : geocoder_http(outcome)
       /\ UNCHANGED outside
    \/ /\ geocode_retry
       /\ UNCHANGED outside
    \/ /\ get_current_weather
       /\ UNCHANGED outside
    \/ /\ \E outcome \in ProviderOutcomes, current \in WeatherBodies :
              weather_http(outcome, current)
       /\ UNCHANGED outside
    \/ /\ get_tourist_attractions
       /\ UNCHANGED outside
    \/ /\ \E outcome \in ProviderOutcomes, elements \in PlacesBodies :
              places_http(outcome, elements)
       /\ UNCHANGED outside
    \/ /\ aggregate_response
       /\ UNCHANGED outside
    \/ /\ process_query_return
       /\ UNCHANGED outside
    \/ /\ \E d \in TickSteps : Tick(d)
       /\ UNCHANGED outside
    \/ /\ LoopTick
       /\ UNCHANGED outside

Spec == Init /\ [][Next]_vars

(***************************************************************************)
(* The classifier on its own: _analyze_intent and the conditional edge,    *)
(* applied to every concatenation of at most MaxFragments fragments.       *)
(***************************************************************************)
QueryFragments ==
    { <<"w", "e", "a", "t", "h", "e", "r">>,
      <<"T", "e", "m", "p", "e", "r", "a", "t", "u", "r", "e">>,
      <<"F", "O", "R", "E", "C", "A", "S", "T">>,
      <<"U", "k", "r", "a", "i", "n", "e">>,
      <<"p", "l", "a", "c", "e", "s">>,
      <<"V", "i", "s", "i", "t">>,
      <<"G", "o", "a">>,
      <<"t", "r", "i">>,
      <<"p">>,
      <<"P", "a", "r", "i", "s">>,
      <<" ">> }

IntentInputs ==
    { join(<<>>, f) :
        f \in UNION { [1..k -> QueryFragments] : k \in 0..MaxFragments } }

InitIntent ==
    /\ location \in IntentInputs
    /\ asked = location
    /\ query_type = ""
    /\ weather_data = EmptyDict
    /\ places_data = EmptyDict
    /\ error = FALSE
    /\ error_message = <<>>
    /\ response = <<>>
    /\ pc = "analyze_intent"
    /\ node = "analyze_intent"
    /\ worker = ""
    /\ geocode_result = EmptyDict
    /\ attempt = 0
    /\ envelope = EmptyDict
    /\ cache = EmptyDict
    /\ time_since_last = rate_limit_delay
    /\ since_last_request = rate_limit_delay
    /\ now = 1
    /\ calls = NoCalls
    /\ visited = <<"analyze_intent">>
    /\ raised = <<>>
    /\ queries = 1
    /\ upstream = NothingUpstream
    /\ InitOutside

NextIntent ==
    \/ /\ analyze_intent
       /\ UNCHANGED outside
    \/ /\ route_based_on_intent
       /\ UNCHANGED outside

SpecIntent == InitIntent /\ [][NextIntent]_vars

(***************************************************************************)
(* The endpoint: plan_trip of main.py and its per-client rate limit.  The  *)
(* handler runs on the event loop: from its first statement to the await   *)
(* of process_query it does not yield, so the limiter is one step; the     *)
(* requests it admitted are in flight until process_query returns.         *)
(***************************************************************************)
RATE_LIMIT_REQUESTS == 10
RATE_LIMIT_WINDOW == 60

\* bounds: requests issued in all, requests in flight in all, the clock
MaxRequests == 12
MaxInFlight == 2
MaxTime == 60

RECURSIVE sum_over(_, _)
sum_over(f, S) ==
    IF S = {} THEN 0
    ELSE LET c == CHOOSE x \in S : TRUE
         IN  f[c] + sum_over(f, S \ {c})

\* [t for t in timestamps if current_time - t <= RATE_LIMIT_WINDOW]
pruned_inclusive(timestamps) ==
    SelectSeq(timestamps, LAMBDA t : current_time - t <= RATE_LIMIT_WINDOW)

\* lines 159-162: [t for t in ... if current_time - t < RATE_LIMIT_WINDOW]
pruned(timestamps) ==
    SelectSeq(timestamps, LAMBDA t : current_time - t < RATE_LIMIT_WINDOW)

\* len(...) > RATE_LIMIT_REQUESTS
over_quota_strict(timestamps) == Len(timestamps) > RATE_LIMIT_REQUESTS

\* line 165: len(rate_limit_storage[client_ip]) >= RATE_LIMIT_REQUESTS
over_quota(timestamps) == Len(timestamps) >= RATE_LIMIT_REQUESTS

\* a handler that records the request before it tests the limit
plan_trip_records_first(client_ip) ==
    /\ sum_over([c \in Clients |-> Len(served[c])], Clients) < MaxRequests
    /\ LET kept == pruned(rate_limit_storage[client_ip])
       IN  /\ rate_limit_storage' =
                  [rate_limit_storage EXCEPT ![client_ip] =
                      Append(kept, current_time)]
           /\ request_count' = request_count + 1
           /\ IF over_quota(kept)
              THEN /\ served' = [served EXCEPT ![client_ip] =
                          Append(@, [at |-> current_time, status |-> 429])]
                   /\ UNCHANGED in_flight
              ELSE /\ sum_over(in_flight, Clients) < MaxInFlight
                   /\ in_flight' = [in_flight EXCEPT ![client_ip] = @ + 1]
                   /\ served' = [served EXCEPT ![client_ip] =
                          Append(@, [at |-> current_time, status |-> 200])]
    /\ UNCHANGED <<current_time, agent_vars, race, extraction>>

\* plan_trip, lines 155-176, up to the await of process_query
plan_trip(client_ip) ==
    /\ sum_over([c \in Clients |-> Len(served[c])], Clients) < MaxRequests
    /\ LET kept == pruned(rate_limit_storage[client_ip])
       IN  IF over_quota(kept)
           THEN /\ rate_limit_storage' =
                       [rate_limit_storage EXCEPT ![client_ip] = kept]
                /\ served' = [served EXCEPT ![client_ip] =
                       Append(@, [at |-> current_time, status |-> 429])]
                /\ UNCHANGED <<in_flight, request_count>>
           ELSE /\ sum_over(in_flight, Clients) < MaxInFlight
                /\ rate_limit_storage' =
                       [rate_limit_storage EXCEPT ![client_ip] =
                           Append(kept, current_time)]
                /\ request_count' = request_count + 1
                /\ in_flight' = [in_flight EXCEPT ![client_ip] = @ + 1]
                /\ served' = [served EXCEPT ![client_ip] =
                       Append(@, [at |-> current_time, status |-> 200])]
    /\ UNCHANGED <<current_time, agent_vars, race, extraction>>

\* plan_trip, lines 178-198: process_query has returned, the response is sent
plan_trip_return(client_ip) ==
    /\ in_flight[client_ip] > 0
    /\ in_flight' = [in_flight EXCEPT ![client_ip] = @ - 1]
    /\ UNCHANGED <<rate_limit_storage, current_time, served, request_count,
                   agent_vars, race, extraction>>

\* time.time() moves on, by half a window
ClockSteps == {RATE_LIMIT_WINDOW \div 2}

Clock(d) ==
    /\ current_time + d <= MaxTime
    /\ current_time' = current_time + d
    /\ UNCHANGED <<rate_limit_storage, in_flight, served, request_count,
                   agent_vars, race, extraction>>

NextBoundary ==
    \/ \E client_ip \in Clients : plan_trip(client_ip)
    \/ \E client_ip \in Clients : plan_trip_return(client_ip)
    \/ \E d \in ClockSteps : Clock(d)

SpecBoundary == Init /\ [][NextBoundary]_vars

(***************************************************************************)
(* geocode run by concurrent requests on one event loop, each of them      *)
(* missing the cache: _respect_rate_limit and the start of the first HTTP  *)
(* request.  A request runs until it awaits; asyncio.sleep is the await of *)
(* _respect_rate_limit.                                                    *)
(***************************************************************************)
\* bounds: the loop's clock, and the geocode calls made in all
MaxLoopTime == 4
MaxSent == 4

\* lines 46 and 85-93: last_request_time is set and the request goes out
release(t) ==
    /\ last_request_time' = loop_time
    /\ sent' = Append(sent, loop_time)
    /\ task_pc' = [task_pc EXCEPT ![t] = "requested"]

\* lines 40-46 up to the first await: the sleep, or none and the request
respect_rate_limit(t) ==
    /\ task_pc[t] = "start"
    /\ LET loop_now == loop_time
           since_last == loop_now - last_request_time
       IN  IF since_last < rate_limit_delay
           THEN /\ task_pc' = [task_pc EXCEPT ![t] = "sleep"]
                /\ wake_at' = [wake_at EXCEPT ![t] =
                       loop_time + (rate_limit_delay - since_last)]
                /\ UNCHANGED <<last_request_time, sent>>
           ELSE /\ release(t)
                /\ UNCHANGED wake_at
    /\ UNCHANGED <<loop_time, agent_vars, boundary, extraction>>

\* lines 44-46: the sleep is over
respect_rate_limit_resume(t) ==
    /\ task_pc[t] = "sleep"
    /\ loop_time >= wake_at[t]
    /\ release(t)
    /\ UNCHANGED <<wake_at, loop_time, agent_vars, boundary, extraction>>

\* the geocoder has answered; the next request that needs geocode arrives
geocode_again(t) ==
    /\ task_pc[t] = "requested"
    /\ Len(sent) < MaxSent
    /\ task_pc' = [task_pc EXCEPT ![t] = "start"]
    /\ UNCHANGED <<wake_at, loop_time, last_request_time, sent, agent_vars,
                   boundary, extraction>>

\* the loop's clock moves on by a second, no sleeper being overdue
LoopClock ==
    /\ loop_time < MaxLoopTime
    /\ \A t \in Tasks : task_pc[t] = "sleep" => wake_at[t] > loop_time
    /\ loop_time' = loop_time + 1
    /\ UNCHANGED <<task_pc, wake_at, last_request_time, sent, agent_vars,
                   boundary, extraction>>

NextRace ==
    \/ \E t \in Tasks : respect_rate_limit(t)
    \/ \E t \in Tasks : respect_rate_limit_resume(t)
    \/ \E t \in Tasks : geocode_again(t)
    \/ LoopClock

SpecRace == Init /\ [][NextRace]_vars

(***************************************************************************)
(* The extraction of get_tourist_attractions on its own, applied to every  *)
(* list of at most MaxElements elements Overpass can answer with.  An      *)
(* element has a name or none, and a named one is a museum or a hotel.     *)
(* The extraction compares names for equality only, so the lists are taken *)
(* up to a renaming: the k-th new name of a list is the k-th name of       *)
(* ElementNames.                                                           *)
(***************************************************************************)
\* bound: the elements of an answer of Overpass
MaxElements == 6

ElementNames == <<"A", "B", "C", "D", "E", "F", "G", "H">>

museum(name) == [tags |-> [name |-> name,
                           tourism |-> <<"m", "u", "s", "e", "u", "m">>]]
hotel(name) == [tags |-> [name |-> name,
                          tourism |-> <<"h", "o", "t", "e", "l">>]]

\* the names of the list, in the order of their first occurrence
RECURSIVE names_in(_)
names_in(list) ==
    IF list = <<>> THEN <<>>
    ELSE LET front == names_in(SubSeq(list, 1, Len(list) - 1))
             name == name_of(list[Len(list)])
         IN  IF name = "" \/ \E k \in 1..Len(front) : front[k] = name
             THEN front
             ELSE Append(front, name)

\* the elements that can follow list: the one without a name, and those
\* with a name the list has already or with the next new name
following(list) ==
    LET n == Len(names_in(list)) + 1
    IN  {[tags |-> Unnamed]}
        \cup { museum(ElementNames[k]) : k \in 1..n }
        \cup { hotel(ElementNames[k]) : k \in 1..n }

\* data.get("elements", []): Overpass answers, one element after the other
overpass_answers(element) ==
    /\ extracted = None
    /\ Len(overpass_elements) < MaxElements
    /\ overpass_elements' = Append(overpass_elements, element)
    /\ UNCHANGED <<extracted, agent_vars, boundary, race>>

\* places_service.py, lines 70-116
extract ==
    /\ extracted = None
    /\ extracted' = <<tourist_attractions(overpass_elements)>>
    /\ UNCHANGED <<overpass_elements, agent_vars, boundary, race>>

NextPlaces ==
    \/ \E element \in following(overpass_elements) :
           overpass_answers(element)
    \/ extract

SpecPlaces == Init /\ [][NextPlaces]_vars

(***************************************************************************)
(* Notions the claims are stated in.                                       *)
(***************************************************************************)
Intents == {"weather", "places", "both"}
FetchNodes == {"fetch_weather", "fetch_places", "fetch_both"}

\* the request has been classified
Classified == pc \notin {"idle", "analyze_intent"}

\* process_query has returned
Returned == pc = "done"

\* the fetch nodes the request has run, in order
FetchesRun == SelectSeq(visited, LAMBDA n : n \in FetchNodes)

\* some keyword of the list occurs in the lower-cased text
Matches(keywords, text) ==
    \E k \in 1..Len(keywords) :
        \E i \in 1..Len(text) : \E j \in i..Len(text) :
            SubSeq(lower(text), i, j) = keywords[k]

\* the failures recorded beneath the given worker
FailuresOf(w) == SelectSeq(raised, LAMBDA f : f.worker = w)

(***************************************************************************)
(* C1: process_query never raises to its caller, and the dict it returns   *)
(* has success (a boolean), response (a non-empty string), the intent (one *)
(* of weather, places, both) and location equal to the argument, whatever  *)
(* the geocoder, the weather provider and the places provider answer.      *)
(***************************************************************************)
Thm_C1 ==
    /\ pc # "raised"
    /\ Returned =>
        /\ {"success", "response", "query_type", "location"}
               \subseteq DOMAIN envelope
        /\ envelope.success \in BOOLEAN
        /\ envelope.response # <<>>
        /\ \A i \in 1..Len(envelope.response) :
               envelope.response[i] \in STRING
        /\ envelope.query_type \in Intents
        /\ envelope.location = asked

\* a request in which the provider answered with data of the wrong shape
Wit_C1 ==
    /\ Returned
    /\ \E i \in 1..Len(raised) : raised[i].exc = "AttributeError"
    /\ envelope.success = FALSE

(***************************************************************************)
(* C2: the classification yields weather when the lower-cased text matches *)
(* a weather keyword and no places keyword, places when it matches a       *)
(* places keyword and no weather keyword, and both otherwise; it always    *)
(* yields one of the three and never an error.                             *)
(***************************************************************************)
Thm_C2 ==
    Classified =>
        LET w == Matches(weather_keywords, location)
            p == Matches(places_keywords, location)
        IN  /\ (w /\ ~p) => query_type = "weather"
            /\ (p /\ ~w) => query_type = "places"
            /\ ((w /\ p) \/ (~w /\ ~p)) => query_type = "both"
            /\ query_type \in Intents
            /\ ~error
            /\ pc # "raised"

\* an upper-case weather keyword followed by a name that contains "go"
Wit_C2 ==
    /\ Classified
    /\ location = <<"F", "O", "R", "E", "C", "A", "S", "T">>
                  \o <<"G", "o", "a">>
    /\ query_type = "both"

(***************************************************************************)
(* C3: intent is written once, by the classification, before any fetch     *)
(* node runs; then exactly one fetch node runs, the one the intent         *)
(* selects; a weather request never calls the places worker, a places      *)
(* request never calls the weather worker, and no worker is called twice.  *)
(***************************************************************************)
Thm_C3 ==
    /\ calls["analyze_intent"] <= 1
    /\ Len(FetchesRun) <= 1
    /\ Classified =>
        /\ calls["analyze_intent"] = 1
        /\ query_type = intent_of(asked)
    /\ ~Classified => FetchesRun = <<>> /\ calls["get_weather"] = 0
                      /\ calls["get_places"] = 0
    /\ FetchesRun # <<>> =>
        /\ Classified
        /\ query_type = "weather" => FetchesRun = <<"fetch_weather">>
        /\ query_type = "places" => FetchesRun = <<"fetch_places">>
        /\ query_type = "both" => FetchesRun = <<"fetch_both">>
    /\ pc \in {"aggregate", "return", "done"} => Len(FetchesRun) = 1
    /\ query_type = "weather" => calls["get_places"] = 0
    /\ query_type = "places" => calls["get_weather"] = 0
    /\ calls["get_weather"] <= 1
    /\ calls["get_places"] <= 1

\* a weather request that has returned
Wit_C3 ==
    /\ Returned
    /\ query_type = "weather"
    /\ calls["get_weather"] = 1
    /\ calls["get_places"] = 0

(***************************************************************************)
(* C4: in the both branch, if the weather worker fails the places worker   *)
(* is not called and the message finally reported is the one recorded for  *)
(* the weather failure; the places worker is called only after the weather *)
(* worker has returned its result.                                         *)
(***************************************************************************)
Thm_C4 ==
    FetchesRun = <<"fetch_both">> =>
        /\ FailuresOf("weather") # <<>> =>
            /\ calls["get_places"] = 0
            /\ Len(raised) = 1
            /\ pc \in {"return", "done"} => response = raised[1].message
            /\ Returned => envelope.response = raised[1].message
        /\ calls["get_places"] > 0 =>
            /\ FailuresOf("weather") = <<>>
            /\ truthy(weather_data)
            /\ weather_data.success

\* the both branch has returned after a failure of the weather provider
Wit_C4 ==
    /\ Returned
    /\ FetchesRun = <<"fetch_both">>
    /\ Len(raised) = 1
    /\ raised[1].worker = "weather"
    /\ raised[1].site = "weather_service"

(***************************************************************************)
(* C5: every request reaches the end, provided each step it waits for      *)
(* comes; whatever fetch node ran and whether or not it failed, the run    *)
(* goes through aggregate once, after the fetch node, and ends there.      *)
(***************************************************************************)
RequestStep ==
    \/ /\ analyze_intent
       /\ UNCHANGED outside
    \/ /\ route_based_on_intent
       /\ UNCHANGED outside
    \/ /\ fetch_weather
       /\ UNCHANGED outside
    \/ /\ fetch_places
       /\ UNCHANGED outside
    \/ /\ fetch_both
       /\ UNCHANGED outside
    \/ /\ fetch_both_places
       /\ UNCHANGED outside
    \/ /\ geocode
       /\ UNCHANGED outside
    \/ /\ respect_rate_limit_wake
       /\ UNCHANGED outside
    \/ /\ \E outcome \in GeocoderOutcomes : geocoder_http(outcome)
       /\ UNCHANGED outside
    \/ /\ geocode_retry
       /\ UNCHANGED outside
    \/ /\ get_current_weather
       /\ UNCHANGED outside
    \/ /\ \E outcome \in ProviderOutcomes, current \in WeatherBodies :
              weather_http(outcome, current)
       /\ UNCHANGED outside
    \/ /\ get_tourist_attractions
       /\ UNCHANGED outside
    \/ /\ \E outcome \in ProviderOutcomes, elements \in PlacesBodies :
              places_http(outcome, elements)
       /\ UNCHANGED outside
    \/ /\ aggregate_response
       /\ UNCHANGED outside
    \/ /\ process_query_return
       /\ UNCHANGED outside

FairSpec == Spec /\ WF_vars(RequestStep)

AggregatedOnce ==
    Returned =>
        /\ calls["aggregate"] = 1
        /\ Len(visited) = 3
        /\ visited[1] = "analyze_intent"
        /\ visited[2] \in FetchNodes
        /\ visited[3] = "aggregate"
        /\ node = "END"

Thm_C5 ==
    /\ []AggregatedOnce
    /\ [](calls["aggregate"] <= 1)
    /\ (pc = "analyze_intent") ~> Returned

\* a request that failed in its fetch node and has returned
Wit_C5 ==
    /\ Returned
    /\ error
    /\ calls["aggregate"] = 1

(***************************************************************************)
(* C6: when error is set at aggregation, the response is the recorded      *)
(* error_message and contains neither the weather sentence nor the places  *)
(* sentence, also when the weather worker had succeeded before the places  *)
(* worker failed.                                                          *)
(***************************************************************************)
Thm_C6 ==
    (pc \in {"return", "done"} /\ error) =>
        /\ raised # <<>>
        /\ response = raised[Len(raised)].message
        /\ response = error_message
        /\ truthy(weather_data) =>
               ~contains(weather_data.weather_text, response)
        /\ truthy(places_data) =>
               ~contains(places_data.places_text, response)

\* the both branch after the weather worker succeeded and the places worker
\* failed
Wit_C6 ==
    /\ Returned
    /\ error
    /\ truthy(weather_data)
    /\ raised[1].worker = "places"

(***************************************************************************)
(* C7: a dict returned with success false carries neither a weather        *)
(* payload nor a places payload.                                           *)
(***************************************************************************)
Cex_C7 ==
    (Returned /\ envelope.success = FALSE) =>
        /\ "weather" \notin DOMAIN envelope
        /\ "places" \notin DOMAIN envelope

(***************************************************************************)
(* C8: success is false exactly when a fetch node recorded a failure, and  *)
(* the response is then the fixed message of the kind of error the worker  *)
(* raised to the node: "I don't know this place exists" for                *)
(* LocationNotFoundError, and otherwise the one weather message in the     *)
(* weather worker and the one places message in the places worker; no      *)
(* other failure text is returned.                                         *)
(***************************************************************************)
Thm_C8 ==
    Returned =>
        /\ envelope.success = FALSE <=> raised # <<>>
        /\ envelope.success = FALSE <=> error
        /\ raised # <<>> =>
            LET f == raised[1]
            IN  /\ f.surfaced = "LocationNotFoundError" =>
                       envelope.response = <<"I don't know this place exists">>
                /\ (f.surfaced # "LocationNotFoundError"
                        /\ f.worker = "weather") =>
                       envelope.response =
                           <<"Unable to fetch weather information">>
                /\ (f.surfaced # "LocationNotFoundError"
                        /\ f.worker = "places") =>
                       envelope.response =
                           <<"Unable to fetch places information">>
                /\ envelope.response \in
                       { <<"I don't know this place exists">>,
                         <<"Unable to fetch weather information">>,
                         <<"Unable to fetch places information">> }

\* a request whose geocoder answered 429 to the end, in the places worker
Wit_C8 ==
    /\ Returned
    /\ envelope.success = FALSE
    /\ raised[1].exc = "RateLimitError"
    /\ raised[1].worker = "places"

(***************************************************************************)
(* C9, as stated: in a request where geocoding fails, error is set and     *)
(* neither get_current_weather nor get_tourist_attractions is called.      *)
(***************************************************************************)
GeocodingFailed == \E i \in 1..Len(raised) : raised[i].site = "geocode"

Cex_C9 ==
    GeocodingFailed =>
        /\ error
        /\ calls["get_current_weather"] = 0
        /\ calls["get_tourist_attractions"] = 0

(***************************************************************************)
(* C9, amended: in a request where geocoding fails, error is set, the      *)
(* worker whose geocoding failed does not call its provider and no         *)
(* provider is called after the failure; the count is 0 on both providers  *)
(* unless the failure is in the places worker of the both branch, where    *)
(* the weather worker has made its one call of get_current_weather before. *)
(***************************************************************************)
Thm_C9 ==
    GeocodingFailed =>
        LET f == raised[1]
        IN  /\ error
            /\ Len(raised) = 1
            /\ calls["get_current_weather"] = f.calls["get_current_weather"]
            /\ calls["get_tourist_attractions"]
                   = f.calls["get_tourist_attractions"]
            /\ calls["get_tourist_attractions"] = 0
            /\ f.worker = "weather" => calls["get_current_weather"] = 0
            /\ (f.worker = "places" /\ query_type = "places") =>
                   calls["get_current_weather"] = 0
            /\ (f.worker = "places" /\ query_type = "both") =>
                   calls["get_current_weather"] = 1

\* the both branch, returned after the geocoding of the places worker failed
Wit_C9 ==
    /\ Returned
    /\ GeocodingFailed
    /\ query_type = "both"
    /\ raised[1].worker = "places"

(***************************************************************************)
(* C10: when the geocoder answers that the location has no match, whatever *)
(* the intent, process_query returns success false and the response        *)
(* "I don't know this place exists".                                       *)
(***************************************************************************)
GeocoderSaidNotFound ==
    \E i \in 1..Len(raised) :
        raised[i].site = "geocode" /\ raised[i].cause = "empty"

Thm_C10 ==
    (Returned /\ GeocoderSaidNotFound) =>
        /\ envelope.success = FALSE
        /\ envelope.response = <<"I don't know this place exists">>

\* a places request whose location the geocoder did not find
Wit_C10 ==
    /\ Returned
    /\ GeocoderSaidNotFound
    /\ query_type = "places"

(***************************************************************************)
(* C11: a weather-only query whose location the geocoder resolves and for  *)
(* which the weather provider answers temperature t and precipitation      *)
(* probability p returns success true, intent weather, a response that     *)
(* contains both t and p, a weather payload and no places payload.         *)
(***************************************************************************)
Mentions(text, number) == \E i \in 1..Len(text) : text[i] = ToString(number)

CompleteWeatherBodies ==
    { body \in WeatherBodies :
        /\ DOMAIN body = {"temperature_2m", "precipitation_probability"}
        /\ body.temperature_2m # None
        /\ body.precipitation_probability # None }

ProviderGave(body) == upstream.weather = <<body>>

Thm_C11 ==
    \A body \in CompleteWeatherBodies :
        (Returned /\ query_type = "weather" /\ ProviderGave(body)) =>
            LET t == body.temperature_2m
                p == body.precipitation_probability
            IN  /\ envelope.success = TRUE
                /\ envelope.query_type = "weather"
                /\ Mentions(envelope.response, t[1])
                /\ Mentions(envelope.response, p[1])
                /\ "weather" \in DOMAIN envelope
                /\ envelope.weather.temperature = t
                /\ envelope.weather.precipitation_probability = p
                /\ "places" \notin DOMAIN envelope

\* "Rain?" answered with 18 degrees and 20 percent
Wit_C11 ==
    /\ Returned
    /\ query_type = "weather"
    /\ ProviderGave([temperature_2m |-> <<18>>,
                     precipitation_probability |-> <<20>>])
    /\ calls["geocode"] = 1
    /\ envelope.success = TRUE

(***************************************************************************)
(* C12: when no fetch failed, the response is the weather sentence         *)
(* (present iff the weather worker ran) followed by the places sentence    *)
(* (present iff the places worker ran), with exactly one space between the *)
(* two; the places sentence never comes first and no sentence of a worker  *)
(* that did not run appears.                                               *)
(***************************************************************************)
WeatherRan == calls["get_weather"] > 0
PlacesRan == calls["get_places"] > 0

Thm_C12 ==
    (Returned /\ ~error) =>
        /\ WeatherRan <=> "weather" \in DOMAIN envelope
        /\ PlacesRan <=> "places" \in DOMAIN envelope
        /\ (WeatherRan /\ PlacesRan) =>
               envelope.response =
                   envelope.weather.weather_text \o <<" ">>
                   \o envelope.places.places_text
        /\ (WeatherRan /\ ~PlacesRan) =>
               envelope.response = envelope.weather.weather_text
        /\ (PlacesRan /\ ~WeatherRan) =>
               envelope.response = envelope.places.places_text
        /\ WeatherRan \/ PlacesRan

\* both workers ran and succeeded, and the places worker found attractions
Wit_C12 ==
    /\ Returned
    /\ ~error
    /\ WeatherRan
    /\ PlacesRan
    /\ envelope.places.places # <<>>

(***************************************************************************)
(* C13: at each of the three clients, a call that follows a successful     *)
(* call with the same key within the TTL sends no request upstream and     *)
(* returns the value the earlier call stored, whatever that value is (an   *)
(* empty list of attractions included).                                    *)
(***************************************************************************)
WithinTTL(key) == key \in DOMAIN cache /\ now < cache[key].expiry

GeocodeCallAgain ==
    (pc = "geocode" /\ pc' # pc /\ WithinTTL(geocode_key(location))) =>
        /\ pc' = "provider"
        /\ geocode_result' = cache[geocode_key(location)].value

WeatherCallAgain ==
    LET key == weather_key(geocode_result.lat, geocode_result.lon)
    IN  (pc = "provider" /\ pc' # pc /\ worker = "weather" /\ WithinTTL(key))
            => /\ pc' # "weather_http"
               /\ weather_data'.temperature = cache[key].value.temperature

PlacesCallAgain ==
    LET key == places_key(geocode_result.lat, geocode_result.lon,
                          default_radius)
    IN  (pc = "provider" /\ pc' # pc /\ worker = "places" /\ WithinTTL(key))
            => /\ pc' # "places_http"
               /\ places_data'.places = cache[key].value

Cex_C13 ==
    [][GeocodeCallAgain /\ WeatherCallAgain /\ PlacesCallAgain]_vars

(***************************************************************************)
(* C14: a lookup of a key whose entry has expiry <= now (the instant       *)
(* now = expiry included) treats the entry as absent and removes it from   *)
(* the store; and an entry leaves the store only by such a lookup.         *)
(***************************************************************************)
\* the step is a call of SimpleCache.get, and this is the key it looks up
Lookup == pc \in {"geocode", "provider"} /\ pc' # pc

LookupKey ==
    IF pc = "geocode" THEN geocode_key(location)
    ELSE IF worker = "weather"
    THEN weather_key(geocode_result.lat, geocode_result.lon)
    ELSE places_key(geocode_result.lat, geocode_result.lon, default_radius)

\* the lookup went on as after a miss: to the rate limiter or to the request
Missed ==
    IF pc = "geocode" THEN pc' \in {"rate_limit_sleep", "geocoder_http"}
    ELSE pc' \in {"weather_http", "places_http"}

Cex_C14 ==
    [][ /\ (Lookup /\ LookupKey \in DOMAIN cache
               /\ cache[LookupKey].expiry <= now)
           => (Missed /\ LookupKey \notin DOMAIN cache')
        /\ \A key \in DOMAIN cache :
               key \notin DOMAIN cache' =>
                   (Lookup /\ key = LookupKey /\ cache[key].expiry <= now)
      ]_vars

(***************************************************************************)
(* C15: the TTL of an entry runs from its latest write.  A call with the   *)
(* key of an entry written more than the TTL ago misses the cache and goes *)
(* upstream; every write stores its value with expiry = time of the write  *)
(* + TTL; and a read never changes the expiry of an entry.                 *)
(***************************************************************************)
\* the step is a call of SimpleCache.set
Write == pc \in {"geocoder_http", "weather_http", "places_http"}
             /\ cache' # cache

Written == { key \in DOMAIN cache' :
                 key \notin DOMAIN cache \/ cache'[key] # cache[key] }

Thm_C15 ==
    [][ /\ (Lookup /\ LookupKey \in DOMAIN cache
               /\ now > cache[LookupKey].expiry)
           => (Missed /\ LookupKey \notin DOMAIN cache')
        /\ Write =>
               /\ Cardinality(Written) = 1
               /\ \A key \in Written :
                      cache'[key].expiry = now + ttl_seconds
        /\ ~Write =>
               \A key \in DOMAIN cache' :
                   key \in DOMAIN cache /\ cache'[key] = cache[key]
      ]_vars

\* in the both branch, the entry the weather step read has expired before
\* the places step, which has asked the geocoder again and stored the answer
Wit_C15 ==
    /\ query_type = "both"
    /\ worker = "places"
    /\ pc = "provider"
    /\ Len(upstream.tried) = 1
    /\ now > ttl_seconds
    /\ cache[geocode_key(location)].expiry = now + ttl_seconds

(***************************************************************************)
(* C16: per client, a request is admitted exactly when fewer than quota    *)
(* earlier admitted requests of that client lie less than a window before  *)
(* it.  So of quota+1 requests issued within one window that starts clear  *)
(* of earlier admissions, the first quota are admitted and the             *)
(* (quota+1)-th and every later one in that window get a 429; and a        *)
(* request issued a window or more after every admitted one is admitted.   *)
(***************************************************************************)
\* the admitted requests of client c before its i-th that lie less than a
\* window before the i-th
AdmittedBefore(c, i) ==
    { j \in 1..(i - 1) :
        /\ served[c][j].status = 200
        /\ served[c][i].at - served[c][j].at < RATE_LIMIT_WINDOW }

\* requests i .. i+quota of client c lie within one window, and no admitted
\* request lies less than a window before the first of them
Burst(c, i) ==
    /\ i + RATE_LIMIT_REQUESTS <= Len(served[c])
    /\ served[c][i + RATE_LIMIT_REQUESTS].at - served[c][i].at
           < RATE_LIMIT_WINDOW
    /\ AdmittedBefore(c, i) = {}

Thm_C16 ==
    \A c \in Clients :
        /\ \A i \in 1..Len(served[c]) :
               /\ served[c][i].status \in {200, 429}
               /\ served[c][i].status = 200 <=>
                      Cardinality(AdmittedBefore(c, i)) < RATE_LIMIT_REQUESTS
               /\ AdmittedBefore(c, i) = {} => served[c][i].status = 200
        /\ \A i \in 1..Len(served[c]) :
               Burst(c, i) =>
                   /\ \A k \in i..(i + RATE_LIMIT_REQUESTS - 1) :
                          served[c][k].status = 200
                   /\ \A k \in (i + RATE_LIMIT_REQUESTS)..Len(served[c]) :
                          served[c][k].at - served[c][i].at
                                  < RATE_LIMIT_WINDOW
                              => served[c][k].status = 429

\* one client: quota requests admitted, the next one rejected in the same
\* window, and one admitted when the window has elapsed
Wit_C16 ==
    \E c \in Clients :
        /\ Len(served[c]) = RATE_LIMIT_REQUESTS + 2
        /\ Burst(c, 1)
        /\ served[c][RATE_LIMIT_REQUESTS + 1].status = 429
        /\ served[c][RATE_LIMIT_REQUESTS + 2].at
               = served[c][1].at + RATE_LIMIT_WINDOW
        /\ served[c][RATE_LIMIT_REQUESTS + 2].status = 200

(***************************************************************************)
(* C17: with any number of requests of a client in flight, its window      *)
(* never holds more than quota timestamps of the trailing window, and no   *)
(* more than quota of its requests are admitted within any window; and a   *)
(* request of one client leaves the windows of the other clients as they   *)
(* are.                                                                    *)
(***************************************************************************)
\* the timestamps client c holds that lie within the trailing window
InTrailingWindow(c) ==
    { k \in 1..Len(rate_limit_storage[c]) :
        current_time - rate_limit_storage[c][k] < RATE_LIMIT_WINDOW }

\* the requests of client c admitted in the window that ends with its i-th
AdmittedInWindow(c, i) ==
    { j \in 1..i :
        /\ served[c][j].status = 200
        /\ served[c][i].at - served[c][j].at < RATE_LIMIT_WINDOW }

WithinQuota ==
    \A c \in Clients :
        /\ Cardinality(InTrailingWindow(c)) <= RATE_LIMIT_REQUESTS
        /\ \A i \in 1..Len(served[c]) :
               Cardinality(AdmittedInWindow(c, i)) <= RATE_LIMIT_REQUESTS

WindowsIndependent ==
    \A c \in Clients :
        rate_limit_storage'[c] # rate_limit_storage[c] =>
            /\ served'[c] # served[c]
            /\ \A d \in Clients \ {c} :
                   /\ rate_limit_storage'[d] = rate_limit_storage[d]
                   /\ served'[d] = served[d]

Thm_C17 == []WithinQuota /\ [][WindowsIndependent]_vars

\* a client with two requests in flight whose window is full, the other
\* client having been served meanwhile
Wit_C17 ==
    \E c \in Clients :
        /\ in_flight[c] = 2
        /\ Cardinality(InTrailingWindow(c)) = RATE_LIMIT_REQUESTS
        /\ served[c][Len(served[c])].status = 429
        /\ \E d \in Clients \ {c} : served[d] # <<>>

(***************************************************************************)
(* C18: whatever the interleaving of concurrent requests whose lookups     *)
(* miss the cache, any two requests to the geocoder are started at least   *)
(* rate_limit_delay apart.                                                 *)
(***************************************************************************)
Cex_C18 ==
    \A i, j \in 1..Len(sent) :
        i < j => sent[j] - sent[i] >= rate_limit_delay

(***************************************************************************)
(* C19: a geocode call whose requests fail transiently (429 or transport   *)
(* error, in any mix) retries-1 times and then succeed returns the         *)
(* successful result after exactly retries requests; fewer transient       *)
(* failures than retries never end the call; and a success on an earlier   *)
(* request ends the loop, no further request being sent.                   *)
(***************************************************************************)
Transient == {"status_429", "http_error"}

\* geocode has just returned a result it fetched from the geocoder
GeocodeFetched == pc = "provider" /\ upstream.tried # <<>>

AllTransient(outcomes) ==
    \A k \in 1..Len(outcomes) : outcomes[k] \in Transient

Thm_C19 ==
    /\ [](GeocodeFetched =>
            LET n == Len(upstream.tried)
            IN  /\ n <= MAX_RETRIES
                /\ upstream.tried[n] = "ok"
                /\ AllTransient(SubSeq(upstream.tried, 1, n - 1))
                /\ geocode_result = geocoder_match(location))
    /\ [](\A i \in 1..Len(raised) :
            (raised[i].site = "geocode" /\ raised[i].attempts < MAX_RETRIES)
                => raised[i].cause \notin Transient)
    /\ [][GeocodeFetched => pc' \notin {"geocoder_http", "retry_sleep"}]_vars

\* a 429, a transport error and then a match
Wit_C19 ==
    /\ GeocodeFetched
    /\ upstream.tried = <<"status_429", "http_error", "ok">>
    /\ geocode_result = geocoder_match(location)

(***************************************************************************)
(* C20: when every request of a geocode call fails transiently, the        *)
(* geocoder is asked exactly retries times and the call then raises a      *)
(* classified error: RateLimitError after a final 429, one of the errors   *)
(* of the taxonomy after a final transport error.  The loop never makes    *)
(* more than retries requests and geocode never returns without a value.   *)
(***************************************************************************)
ClassifiedErrors ==
    {"LocationNotFoundError", "WeatherAPIError", "PlacesAPIError",
     "RateLimitError"}

Thm_C20 ==
    /\ Len(upstream.tried) <= MAX_RETRIES
    /\ attempt < MAX_RETRIES
    /\ pc = "geocoder_http" =>
           (Len(upstream.tried) = attempt /\ AllTransient(upstream.tried))
    /\ pc = "provider" => truthy(geocode_result)
    /\ \A i \in 1..Len(raised) :
           /\ raised[i].attempts <= MAX_RETRIES
           /\ (raised[i].site = "geocode" /\ raised[i].cause \in Transient) =>
                  /\ raised[i].attempts = MAX_RETRIES
                  /\ raised[i].exc \in ClassifiedErrors
                  /\ raised[i].cause = "status_429" =>
                         raised[i].exc = "RateLimitError"

\* the geocoder was asked three times and the last answer was a transport
\* error
Wit_C20 ==
    /\ raised # <<>>
    /\ raised[1].site = "geocode"
    /\ raised[1].cause = "http_error"
    /\ raised[1].attempts = MAX_RETRIES

(***************************************************************************)
(* C21: an answer of the geocoder without a match is not retried at any    *)
(* layer.  On whichever request of the call it comes, geocode raises       *)
(* LocationNotFoundError in that step: no request follows it and no        *)
(* backoff sleep is entered; the worker raises LocationNotFoundError to    *)
(* the fetch node and geocode is not called again in the request.          *)
(***************************************************************************)
\* the failures of the request that are an empty answer of the geocoder
NotFoundAnswers ==
    { i \in 1..Len(raised) :
        raised[i].site = "geocode" /\ raised[i].cause = "empty" }

\* the step in which geocode gets an empty answer
NotFoundStep ==
    /\ Len(raised') = Len(raised) + 1
    /\ raised'[Len(raised')].site = "geocode"
    /\ raised'[Len(raised')].cause = "empty"

NotRetried ==
    /\ \A k \in 1..Len(upstream.tried) : upstream.tried[k] # "empty"
    /\ \A i \in NotFoundAnswers :
           LET f == raised[i]
           IN  /\ f.exc = "LocationNotFoundError"
               /\ f.surfaced = "LocationNotFoundError"
               /\ f.attempts \in 1..MAX_RETRIES
               /\ i = Len(raised)
               /\ f.calls["geocode"]
                      = f.calls["get_weather"] + f.calls["get_places"]
               /\ calls["geocode"] = f.calls["geocode"]
               /\ pc \notin {"geocode", "rate_limit_sleep", "geocoder_http",
                              "retry_sleep"}

ProviderSites == {"weather_service", "places_service"}

Cex_C22 ==
    \A i \in 1..Len(raised) :
        (raised[i].site \in ProviderSites /\ raised[i].cause = "http_error")
            => raised[i].attempts = MAX_RETRIES

(***************************************************************************)
(* C23: no unclassified error leaves a worker.  Whatever fails beneath it  *)
(* (the geocoder's rate limit, a transport error, data of the wrong shape, *)
(* a missing field), get_weather raises LocationNotFoundError or           *)
(* WeatherAPIError and get_places raises LocationNotFoundError or          *)
(* PlacesAPIError; and a failure of the provider is raised as the worker's *)
(* own kind.                                                               *)
(***************************************************************************)
\* the error kinds the clients raise that are not of the worker's taxonomy
Unclassified == Exceptions \ ClassifiedErrors

Thm_C23 ==
    /\ pc # "raised"
    /\ \A i \in 1..Len(raised) :
           LET f == raised[i]
           IN  /\ f.worker = "weather" =>
                      f.surfaced \in
                          {"LocationNotFoundError", "WeatherAPIError"}
               /\ f.worker = "places" =>
                      f.surfaced \in {"LocationNotFoundError", "PlacesAPIError"}
               /\ f.site \in ProviderSites =>
                      f.surfaced = (IF f.worker = "weather"
                                    THEN "WeatherAPIError"
                                    ELSE "PlacesAPIError")
               /\ f.exc = "RateLimitError" => f.surfaced # "RateLimitError"

\* the weather worker, under which the geocoder's answer did not parse
Wit_C23 ==
    /\ Returned
    /\ raised # <<>>
    /\ raised[1].worker = "weather"
    /\ raised[1].site = "geocode"
    /\ raised[1].exc \in Unclassified
    /\ raised[1].surfaced = "WeatherAPIError"

(***************************************************************************)
(* C24: for every list of elements the places provider answers with        *)
(* (named and unnamed, notable and not, names repeated), the list          *)
(* get_tourist_attractions returns has at most 5 entries, holds no name    *)
(* twice, and each of its entries is the name of a named element of the    *)
(* answer.                                                                 *)
(***************************************************************************)
\* get_tourist_attractions has returned
Extracted == extracted # None

\* the elements of the answer that have a name, by their position
NamedElements ==
    { i \in 1..Len(overpass_elements) :
        /\ "tags" \in DOMAIN overpass_elements[i]
        /\ "name" \in DOMAIN overpass_elements[i].tags
        /\ overpass_elements[i].tags.name # "" }

NameAt(i) == overpass_elements[i].tags.name

Thm_C24 ==
    Extracted =>
        LET attractions == extracted[1]
        IN  /\ Len(attractions) <= 5
            /\ \A i, j \in 1..Len(attractions) :
                   i # j => attractions[i] # attractions[j]
            /\ \A i \in 1..Len(attractions) :
                   \E e \in NamedElements : NameAt(e) = attractions[i]

\* an answer with six names, museums and hotels among them
Wit_C24 ==
    /\ Extracted
    /\ Cardinality({ NameAt(e) : e \in NamedElements }) = 6
    /\ \E e \in NamedElements : overpass_elements[e] = hotel(NameAt(e))
    /\ \E e \in NamedElements : overpass_elements[e] = museum(NameAt(e))
    /\ Len(extracted[1]) = 5

(***************************************************************************)
(* C25: in the list get_tourist_attractions returns, every name of a       *)
(* notable element comes before every other name; the notable names are in *)
(* the order of their notable elements in the answer; a name that is not   *)
(* notable is in the list only if the answer has fewer than 5 notable      *)
(* names; and a notable name is left out only if 5 notable names that come *)
(* before it are in the list.                                              *)
(***************************************************************************)
\* the element has a tag tourism, leisure or historic in whose value one of
\* the categories occurs
TaggedNotable(e) ==
    \E key \in {"tourism", "leisure", "historic"}
                \cap DOMAIN overpass_elements[e].tags :
        LET value == overpass_elements[e].tags[key]
        IN  \E k \in 1..Len(relevant_types) :
                \E i \in 1..(Len(value) - Len(relevant_types[k]) + 1) :
                    SubSeq(value, i, i + Len(relevant_types[k]) - 1)
                        = relevant_types[k]

NotableElements == { e \in NamedElements : TaggedNotable(e) }

\* per name of the given notable elements, the position of the first of them
FirstNotable(notable) ==
    [ name \in { NameAt(e) : e \in notable } |->
        CHOOSE e \in notable :
            /\ NameAt(e) = name
            /\ \A d \in notable : NameAt(d) = name => e <= d ]

Thm_C25 ==
    Extracted =>
        LET attractions == extracted[1]
            listed == { attractions[i] : i \in 1..Len(attractions) }
            first == FirstNotable(NotableElements)
            notable_names == DOMAIN first
        IN  /\ \A i, j \in 1..Len(attractions) :
                   (i < j /\ attractions[j] \in notable_names) =>
                       /\ attractions[i] \in notable_names
                       /\ first[attractions[i]] < first[attractions[j]]
            /\ listed \ notable_names # {} =>
                   Cardinality(notable_names) < 5
            /\ \A name \in notable_names \ listed :
                   Cardinality({ other \in listed \cap notable_names :
                                   first[other] < first[name] }) = 5

\* a hotel and then five museums: the hotel is not in the list
Wit_C25 ==
    /\ Extracted
    /\ Len(overpass_elements) = 6
    /\ overpass_elements[1] = hotel("A")
    /\ Cardinality(NotableElements) = 5
    /\ extracted[1] = <<"B", "C", "D", "E", "F">>

(***************************************************************************)
(* C26, as stated: a worker called with a location the geocoder cannot     *)
(* resolve does not raise but returns a result whose success field is      *)
(* false and which, for the weather worker, has an error field.            *)
(***************************************************************************)
\* what the fetch node got from worker w as its result
ResultOf(w) == IF w = "weather" THEN weather_data ELSE places_data

InWorker ==
    {"geocode", "rate_limit_sleep", "geocoder_http", "retry_sleep",
     "provider", "weather_http", "places_http"}

\* worker w has been called and has neither returned nor raised
Running(w) == worker = w /\ pc \in InWorker

\* what the weather worker has done so far
WeatherWork ==
    <<calls["get_weather"], calls["get_current_weather"], upstream.weather,
      weather_data>>

Sequential ==
    /\ ~(Running("weather") /\ Running("places"))
    /\ (query_type = "both" /\ PlacesRan) =>
           /\ ~Running("weather")
           /\ calls["get_weather"] = 1
           /\ truthy(weather_data)
           /\ weather_data.success
           /\ FailuresOf("weather") = <<>>
    /\ (query_type = "both" /\ Running("weather")) =>
           /\ ~PlacesRan
           /\ calls["get_tourist_attractions"] = 0
           /\ upstream.places = <<>>

Thm_C27 ==
    /\ []Sequential
    /\ [][(query_type = "both" /\ PlacesRan /\ pc' # "analyze_intent")
              => WeatherWork' = WeatherWork]_vars
    /\ [][(query_type = "both" /\ ~PlacesRan /\ PlacesRan')
              => (pc = "fetch_both_places" /\ truthy(weather_data))]_vars

\* the both branch: the weather provider has answered, and the places
\* worker, the geocoder's entry having expired, is asking the geocoder
Wit_C27 ==
    /\ query_type = "both"
    /\ Running("places")
    /\ pc = "geocoder_http"
    /\ upstream.weather # <<>>
    /\ calls["geocode"] = 2

(***************************************************************************)
(* C28: a request the endpoint's rate limiter rejects is answered with a   *)
(* 429 and nothing else happens for it: process_query is not started, the  *)
(* request is answered once, no timestamp is added to the client's window  *)
(* and request_count stays as it is; an admitted request does all of it.   *)
(***************************************************************************)
\* the step answers a request of client c with the status
Answered(c, status) ==
    /\ Len(served'[c]) = Len(served[c]) + 1
    /\ served'[c][Len(served'[c])].status = status

\* the timestamps of the list that are in the trailing window of the step
StillInWindow(timestamps) ==
    SelectSeq(timestamps, LAMBDA t : current_time - t < RATE_LIMIT_WINDOW)

\* the requests answered with the status so far
AnsweredWith(status) ==
    sum_over([c \in Clients |->
                 Cardinality({ i \in 1..Len(served[c]) :
                                 served[c][i].status = status })],
             Clients)

Thm_C28 ==
    /\ [](request_count = AnsweredWith(200))
    /\ [](sum_over(in_flight, Clients) <= request_count)
    /\ [][\A c \in Clients :
              /\ Answered(c, 429) =>
                     /\ in_flight' = in_flight
                     /\ request_count' = request_count
                     /\ rate_limit_storage'[c]
                            = StillInWindow(rate_limit_storage[c])
                     /\ Len(rate_limit_storage'[c])
                            <= Len(rate_limit_storage[c])
                     /\ agent_vars' = agent_vars
              /\ Answered(c, 200) =>
                     /\ in_flight'[c] = in_flight[c] + 1
                     /\ request_count' = request_count + 1
                     /\ rate_limit_storage'[c]
                            = Append(StillInWindow(rate_limit_storage[c]),
                                     current_time)
              /\ Len(served'[c]) <= Len(served[c]) + 1]_vars

\* a client's eleventh and twelfth request in a window were rejected, none
\* of its requests being in flight
Wit_C28 ==
    \E c \in Clients :
        /\ Len(served[c]) = RATE_LIMIT_REQUESTS + 2
        /\ served[c][RATE_LIMIT_REQUESTS + 1].status = 429
        /\ served[c][RATE_LIMIT_REQUESTS + 2].status = 429
        /\ request_count = RATE_LIMIT_REQUESTS
        /\ Len(rate_limit_storage[c]) = RATE_LIMIT_REQUESTS
        /\ in_flight[c] = 0

(***************************************************************************)
(* C29: within a request error only goes from false to true.  Once a fetch *)
(* step has set it, no worker is called and nothing is asked upstream, the *)
(* results stored stay as they are, error stays true and error_message is  *)
(* the one recorded with it until the request has returned.                *)
(***************************************************************************)
\* the calls of the workers and of the three clients, and what came back
FetchWork ==
    <<calls["get_weather"], calls["get_places"], calls["geocode"],
      calls["get_current_weather"], calls["get_tourist_attractions"],
      upstream, weather_data, places_data, raised>>

FailedStays ==
    /\ error =>
           /\ pc \in {"fetch_both_places", "aggregate", "return", "done"}
           /\ Len(raised) = 1
           /\ error_message = raised[1].message
           /\ error_message # <<>>
    /\ (error /\ pc \in {"return", "done"}) => response = raised[1].message
    /\ ~error => raised = <<>> /\ error_message = <<>>

Thm_C29 ==
    /\ []FailedStays
    /\ [][(error /\ pc' # "analyze_intent") =>
              /\ error'
              /\ error_message' = error_message
              /\ FetchWork' = FetchWork]_vars

\* the both branch at line 117, the weather worker's geocoding having ended
\* with a 429
Wit_C29 ==
    /\ pc = "fetch_both_places"
    /\ error
    /\ raised[1].cause = "status_429"
    /\ calls["get_places"] = 0

(***************************************************************************)
(* C30: the branch of the aggregation for no information is never taken.   *)
(* Whenever the aggregation starts with error false, the weather worker or *)
(* the places worker has returned a result with success true and a         *)
(* non-empty sentence, so the response is never "I couldn't find           *)
(* information for this location."                                         *)
(***************************************************************************)
\* the worker's result is there, with success true and a sentence
HasSentence(result, field) ==
    /\ result # EmptyDict
    /\ "success" \in DOMAIN result
    /\ result.success = TRUE
    /\ result[field] # <<>>

Thm_C30 ==
    /\ (pc = "aggregate" /\ ~error) =>
           \/ HasSentence(weather_data, "weather_text")
           \/ HasSentence(places_data, "places_text")
    /\ response # <<"I couldn't find information for this location.">>
    /\ Returned =>
           envelope.response
               # <<"I couldn't find information for this location.">>

\* a places request for which the provider had no element: the worker's
\* sentence says so, and it is the response
Wit_C30 ==
    /\ Returned
    /\ ~error
    /\ query_type = "places"
    /\ places_data.places = <<>>
    /\ envelope.response = places_data.places_text

(***************************************************************************)
(* C31: with one request processed after the other, every request that     *)
(* goes out to the geocoder, a retry as well as the first request of a     *)
(* geocode call, goes out at least rate_limit_delay after the request to   *)
(* the geocoder before it.                                                 *)
(***************************************************************************)
\* the step in which a request goes out to the geocoder
GeocoderRequest == pc # "geocoder_http" /\ pc' = "geocoder_http"

Cex_C31 ==
    [][GeocoderRequest =>
           since_last_request + slept >= rate_limit_delay]_vars

(***************************************************************************)
(* C32: "I don't know this place exists" is the response only of a request *)
(* in which the geocoder answered that the location has no match.  A       *)
(* geocode call that fails because its requests fail in transport, or      *)
(* because the geocoder goes on answering 429, is not reported with that   *)
(* message but with one of the two "Unable to fetch" messages.             *)
(***************************************************************************)
\* the failures of the request that are the geocoder being out of reach
GeocoderUnavailable ==
    { i \in 1..Len(raised) :
        /\ raised[i].site = "geocode"
        /\ raised[i].cause \in {"http_error", "status_429"} }

Cex_C32 ==
    /\ Returned /\ envelope.response = MsgLocationNotFound =>
           NotFoundAnswers # {}
    /\ \A i \in GeocoderUnavailable :
           /\ raised[i].surfaced # "LocationNotFoundError"
           /\ raised[i].message
                  \in {MsgWeatherUnavailable, MsgPlacesUnavailable}

(***************************************************************************)
(* C33: a service call that ends with an error leaves the cache as it was. *)
(* The step in which geocode, get_current_weather or                       *)
(* get_tourist_attractions raises changes no entry, and what the store     *)
(* holds for the key of the call is nothing a call would return, so that   *)
(* the next call with this key goes upstream; every write to the cache is  *)
(* made by a call that returns a result, under the key of that call.       *)
(***************************************************************************)
\* the step in which a service call ends with an error
CallFails == Len(raised') = Len(raised) + 1

\* the key of the service call that is waiting for its upstream
CallKey ==
    CASE pc = "geocoder_http" -> geocode_key(location)
      [] pc = "weather_http" ->
             weather_key(geocode_result.lat, geocode_result.lon)
      [] pc = "places_http" ->
             places_key(geocode_result.lat, geocode_result.lon,
                        default_radius)

Thm_C33 ==
    [][ /\ CallFails =>
               /\ cache' = cache
               /\ ~truthy(cache_get(CallKey))
        /\ Write =>
               /\ ~CallFails
               /\ Written = {CallKey}
               /\ pc' \in {"provider", "aggregate", "fetch_both_places"}
      ]_vars

\* the weather provider has failed after the geocoder answered: the place
\* has its entry and the failed weather call has none
Wit_C33 ==
    /\ Len(raised) = 1
    /\ raised[1].site = "weather_service"
    /\ geocode_key(location) \in DOMAIN cache
    /\ weather_key(geocoder_match(location).lat,
                   geocoder_match(location).lon) \notin DOMAIN cache

=============================================================================
